---- MODULE Spec2Model ----
(***************************************************************************)
(* Model of the liquid level sensor of sensor_script.py:                   *)
(* LiquidLevelSensor._measure_distance, get_filtered_reading and           *)
(* _store_reading, with the echo line, the clock and the file system as    *)
(* the environment.                                                        *)
(*                                                                         *)
(* Units.  Time is counted in ticks of 1/(17150 * TicksPerCm) second, so   *)
(* that pulse_duration * 17150 is the rational Ticks / TicksPerCm          *)
(* centimetres.  Distances that were rounded by round(x, 2) are kept as    *)
(* integers in hundredths of a centimetre (25.0 cm is 2500).  round() is   *)
(* Python's round-half-even, applied here to the exact quotient; the       *)
(* representation error of binary floats is not modelled.                  *)
(***************************************************************************)
EXTENDS Integers, Sequences, FiniteSets, TLC

VARIABLES
    USING_MOCK,        \* module flag: Mock.GPIO was imported instead of RPi.GPIO
    readings,          \* self.readings, the deque(maxlen = sample_window)
    log_file,          \* the file named self.log_file: [state, entries]
    pc,                \* position of the one call of get_filtered_reading
    clock,             \* time.time(), relative to start_time of the cycle
    timeout,           \* local timeout of _measure_distance
    pulse_start,       \* local pulse_start
    pulse_end,         \* local pulse_end
    polls,             \* clock reads made in the two wait loops of this cycle
    raw_distance,      \* local raw_distance: None or <<hundredths>>
    filtered_reading,  \* local filtered_reading (hundredths)
    store_readings,    \* local readings of _store_reading (the loaded list)
    ret,               \* what the last call returned: None or <<hundredths>>
    raised,            \* the last call ended by an exception reaching the caller
    cycles,            \* calls of get_filtered_reading made so far
    accepted,          \* history: every raw sample pushed so far, in order
    timed_out,         \* history: a wait loop of this cycle left by its deadline
    fault,             \* history: where an exception was raised in this cycle
    env_fault,         \* history: the environment failed a call of this cycle
    in_range,          \* history: the distance converted in this cycle was in [2, 400]
    readings0,         \* history: self.readings when this cycle began
    log_file0,         \* history: the log file when this cycle began
    \* concurrent calls of _store_reading on one log file
    shared_log,        \* the file the writers share: [state, entries]
    w_pc,              \* per writer: "idle", or "loaded" between load and save
    w_readings,        \* per writer: local readings (the loaded list)
    w_data,            \* per writer: local data (the entry to append)
    w_done,            \* per writer: calls of _store_reading completed
    store_clock,       \* datetime.now() of the writers: calls begun so far
    overlapped,        \* history: a call began while another was running
    begun,             \* history: the data of the calls, in order of beginning
    shared_log0,       \* history: the shared file before the first call
    \* PowerAutomateIntegration.send_reading
    send_pc,           \* "idle", or "posting" inside the while loop
    reading_data,      \* the argument reading_data: [fields, serializable]
    max_retries,       \* the argument max_retries
    retry_count,       \* local retry_count
    validated,         \* what _validate_reading returned in this call
    attempts,          \* history: the outcome of every iteration of this call
    send_ret,          \* what the last call returned: None or <<BOOLEAN>>
    send_calls,        \* calls of send_reading made so far
    \* PowerAutomateIntegration.process_batch_readings
    batch_pc,          \* "idle", "loop" at the head of the for, "sending"
    batch,             \* the argument readings
    batch_i,           \* position of the for loop in readings
    results,           \* local results
    batch_ret,         \* what the call returned: None or <<results>>
    batch_log,         \* history: reading and outcomes of every send_reading
    \* SystemIntegrator.run_monitoring_cycle
    int_pc,            \* position of the one call of run_monitoring_cycle
    potion_mixer,      \* self.potion_mixer: "absent" (None) or "present"
    sensor_reading,    \* local reading of process_sensor_reading
    command,           \* local command of process_voice_command: None or <<set>>
    sensor_success,    \* results['sensor_success']
    voice_success,     \* results['voice_success']
    cycle_ret,         \* what the last call returned: None or <<results>>
    cycle_raised,      \* the last call ended by an exception reaching the caller
    monitor_cycles,    \* calls of run_monitoring_cycle made so far
    calls,             \* history: the calls made on the collaborators, in order
    sensor_raised,     \* history: get_filtered_reading raised in this cycle
    voice_raised,      \* history: listen_for_command raised in this cycle
    mixer_result,      \* history: what the potion mixer returned: None or <<BOOLEAN>>
    sensor_ret,        \* history: what process_sensor_reading returned
    voice_ret,         \* history: what process_voice_command returned
    \* VoiceCommandRecognizer._parse_command
    parse_text,        \* the argument text: a sequence of words
    parse_ret,         \* what the last call returned: None or <<categories>>
    parse_calls,       \* calls of _parse_command made so far
    \* WebSocketManager
    active_connections,\* self.active_connections, a list
    bc_pc,             \* "idle", or "sending" at the await of broadcast
    bc_index,          \* position of the list iterator of the for loop
    connection,        \* local connection of broadcast
    bc_runs,           \* calls of broadcast made so far
    attempted,         \* history: connections send_json was called on
    send_failed,       \* history: connections whose send_json raised
    throughout,        \* history: connected since this broadcast began
    \* PotionMixer
    current_potion,    \* self.current_potion: None or <<[start_time, ingredients, total_volume]>>
    last_measurement,  \* self.last_measurement: None or <<hundredths>>
    sensor_awaitable,  \* the sensor's get_filtered_reading can be awaited
    mixer_calls,       \* calls made on the mixer so far
    mixer_op,          \* history: the last operation called
    mixer_ret,         \* what the last operation returned: None or <<BOOLEAN>>
    mixer_raised,      \* the last operation ended by an exception
    mixer_sensor,      \* history: what the sensor did in the last operation
    delivery,          \* history: what send_potion_data returned in it
    current_potion0,   \* history: current_potion before the last operation
    last_measurement0, \* history: last_measurement before the last operation
    start_measurement, \* history: the measurement start_new_potion stored
    \* RealTimeStream
    connected,         \* self.connected
    websocket,         \* self.websocket: "none", or the state of the
                       \* connection it refers to: "open" or "closed"
    stream_calls,      \* calls made on the stream so far
    stream_op,         \* history: the last operation called
    stream_ret,        \* what the last send_data returned: None or <<BOOLEAN>>
    stream_raised,     \* the last operation ended by an exception
    connected0,        \* history: self.connected before the last operation
    connect_attempted, \* history: the last operation called websockets.connect
    connect_failed,    \* history: and that call raised
    message_sent       \* history: websocket.send completed in the last operation

sensorVars ==
    <<USING_MOCK, readings, log_file, pc, clock, timeout, pulse_start,
      pulse_end, polls, raw_distance, filtered_reading, store_readings,
      ret, raised, cycles, accepted, timed_out, fault, env_fault, in_range,
      readings0, log_file0>>

storeVars ==
    <<shared_log, w_pc, w_readings, w_data, w_done, store_clock, overlapped,
      begun, shared_log0>>

sendVars ==
    <<send_pc, reading_data, max_retries, retry_count, validated, attempts,
      send_ret, send_calls>>

batchVars == <<batch_pc, batch, batch_i, results, batch_ret, batch_log>>

integratorVars ==
    <<int_pc, potion_mixer, sensor_reading, command, sensor_success, voice_success,
      cycle_ret, cycle_raised, monitor_cycles, calls, sensor_raised,
      voice_raised, mixer_result, sensor_ret, voice_ret>>

parseVars == <<parse_text, parse_ret, parse_calls>>

broadcastVars ==
    <<active_connections, bc_pc, bc_index, connection, bc_runs, attempted,
      send_failed, throughout>>

mixerVars ==
    <<current_potion, last_measurement, sensor_awaitable, mixer_calls,
      mixer_op, mixer_ret, mixer_raised, mixer_sensor, delivery,
      current_potion0, last_measurement0, start_measurement>>

streamVars ==
    <<connected, websocket, stream_calls, stream_op, stream_ret,
      stream_raised, connected0, connect_attempted, connect_failed,
      message_sent>>

vars ==
    <<sensorVars, storeVars, sendVars, batchVars, integratorVars, parseVars,
      broadcastVars, mixerVars, streamVars>>

nonMixerVars ==
    <<sensorVars, storeVars, sendVars, batchVars, integratorVars, parseVars,
      broadcastVars, streamVars>>

nonStreamVars ==
    <<sensorVars, storeVars, sendVars, batchVars, integratorVars, parseVars,
      broadcastVars, mixerVars>>

\* what the actions of one component leave alone
nonStoreVars == <<sensorVars, sendVars, batchVars, integratorVars, parseVars,
      broadcastVars, mixerVars, streamVars>>
nonSendVars == <<sensorVars, storeVars, batchVars, integratorVars, parseVars,
      broadcastVars, mixerVars, streamVars>>
nonBatchVars == <<sensorVars, storeVars, integratorVars, parseVars,
      broadcastVars, mixerVars, streamVars>>
nonIntegratorVars == <<sensorVars, storeVars, sendVars, batchVars, parseVars,
      broadcastVars, mixerVars, streamVars>>
nonBroadcastVars ==
    <<sensorVars, storeVars, sendVars, batchVars, integratorVars, parseVars,
      mixerVars, streamVars>>
nonParseVars ==
    <<sensorVars, storeVars, sendVars, batchVars, integratorVars,
      broadcastVars, mixerVars, streamVars>>

-----------------------------------------------------------------------------
(* Bounds of the model *)

\* clock ticks per centimetre of distance (resolution of the clock)
TicksPerCm == 8
\* calls of get_filtered_reading in a run of Spec
MaxCycles == 2
\* calls of get_filtered_reading in a run of SpecFilter
FilterCycles == 7
\* clock reads of the two wait loops together, per cycle
MaxPolls == 2
\* concurrent callers of _store_reading, and calls made by each
NumWriters == 2
MaxAppends == 2
\* calls of send_reading, and the largest max_retries passed to it
MaxSendCalls == 2
MaxRetries == 3
\* the longest list passed to process_batch_readings
MaxBatch == 2
\* calls of run_monitoring_cycle
MaxMonitorCycles == 2
\* the longest text passed to _parse_command, in words, and the calls made
MaxTextLen == 3
MaxParseCalls == 1
\* the websockets that may connect, and the calls of broadcast
NumConnections == 3
MaxBroadcasts == 1
\* the calls made on the potion mixer
MaxMixerCalls == 4
\* the calls made on the stream
MaxStreamCalls == 4

-----------------------------------------------------------------------------
(* Program constants *)

sample_window == 5
SpeedFactor == 17150
MinValid == 2
MaxValid == 400
MockDefaultCm == 25
\* powerautomate_script.py: the status send_reading takes as success, and
\* the keys a reading must have
AcceptedStatus == 202
required_fields == {"timestamp", "reading", "status"}
\* the default of the parameter max_retries of send_reading
DefaultMaxRetries == 3

TicksPerSecond == SpeedFactor * TicksPerCm
\* timeout = time.time() + 0.1
TimeoutTicks == TicksPerSecond \div 10

-----------------------------------------------------------------------------
(* Values *)

None == <<>>
Some(v) == <<v>>

RECURSIVE Sum(_)
Sum(s) == IF s = <<>> THEN 0 ELSE Head(s) + Sum(Tail(s))

\* round(num / den) to the nearest integer, ties to even; num >= 0, den > 0
RoundHalfEven(num, den) ==
    LET q == num \div den
        r == num % den
    IN  IF 2 * r < den THEN q
        ELSE IF 2 * r > den THEN q + 1
        ELSE IF q % 2 = 0 THEN q ELSE q + 1

\* variant: the speed of sound taken one way, 34300 instead of 17150
Distance_OneWay(pulse_duration) ==
    [num |-> pulse_duration * 2 * SpeedFactor, den |-> TicksPerSecond]

\* distance = pulse_duration * 17150, as the rational num / den centimetres
Distance(pulse_duration) ==
    [num |-> pulse_duration * SpeedFactor, den |-> TicksPerSecond]

\* variant: the upper limit of the range is not tested
InValidRange_NoUpper(distance) ==
    MinValid * distance.den <= distance.num

\* 2 <= distance <= 400
InValidRange(distance) ==
    /\ MinValid * distance.den <= distance.num
    /\ distance.num <= MaxValid * distance.den

\* round(distance, 2), in hundredths; distance >= 0
Round2(distance) ==
    LET whole == distance.num \div distance.den
        rem   == distance.num % distance.den
    IN  whole * 100 + RoundHalfEven(rem * 100, distance.den)

\* lines 58-66 of _measure_distance: the value returned
MeasureDistanceResult(p_start, p_end, mock) ==
    LET distance == Distance(p_end - p_start)
    IN  IF ~InValidRange(distance)
        THEN IF mock THEN Some(MockDefaultCm * 100) ELSE None
        ELSE Some(Round2(distance))

\* variant: the window keeps nothing, as a deque(maxlen = 0) does
DequeAppend_KeepsNothing(dq, x, maxlen) == <<>>

\* variant: a full window drops its newest entry instead of its oldest
DequeAppend_EvictNewest(dq, x, maxlen) ==
    IF Len(dq) >= maxlen
    THEN SubSeq(dq, 1, Len(dq) - 1) \o <<x>>
    ELSE Append(dq, x)

\* deque(maxlen).append(x)
DequeAppend(dq, x, maxlen) ==
    IF Len(dq) >= maxlen THEN Tail(dq) \o <<x>> ELSE Append(dq, x)

\* variant: the sum is divided by the window size, not by the fill
FilteredReading_FixedWindow(dq) == RoundHalfEven(Sum(dq), sample_window)

\* round(sum(self.readings) / len(self.readings), 2)
FilteredReading(dq) == RoundHalfEven(Sum(dq), Len(dq))

-----------------------------------------------------------------------------
(* Exceptions *)

ExceptionTypes ==
    {"RuntimeError", "FileNotFoundError", "JSONDecodeError",
     "PermissionError", "OSError", "ZeroDivisionError"}

\* variant: the clause is "except OSError", which JSONDecodeError escapes
StoreReadingExcept_OnlyOSError(e) ==
    e \in {"FileNotFoundError", "PermissionError", "OSError"}

\* the clause "except Exception as e" of _store_reading matches e
StoreReadingExcept(e) == e \in ExceptionTypes

\* variant: the clause is "except OSError", which RuntimeError escapes
GetFilteredReadingExcept_OnlyOSError(e) ==
    e \in {"FileNotFoundError", "PermissionError", "OSError"}

\* the clause "except Exception as e" of get_filtered_reading matches e
GetFilteredReadingExcept(e) == e \in ExceptionTypes

\* variant: no clause around the load, a missing file is an error
LoadExcept_NoClause(e) == FALSE

\* variant: the clause also takes an unparseable file for an empty log
LoadExcept_AlsoCorrupt(e) == e \in {"FileNotFoundError", "JSONDecodeError"}

\* the clause "except FileNotFoundError" around the load matches e
LoadExcept(e) == e = "FileNotFoundError"

-----------------------------------------------------------------------------
(* The log file *)

MissingFile == [state |-> "missing", entries |-> <<>>]
CorruptFile == [state |-> "corrupt", entries |-> <<>>]
LogFile(entries) == [state |-> "ok", entries |-> entries]

\* what open(self.log_file, 'r') and json.load(f) raise; rd is the
\* environment's answer to the open of an existing file
LoadRaises(f, rd) ==
    IF f.state = "missing" THEN "FileNotFoundError"
    ELSE IF rd = "error" THEN "PermissionError"
    ELSE IF f.state = "corrupt" THEN "JSONDecodeError"
    ELSE "none"

\* what open(self.log_file, 'w') and json.dump raise
WriteRaises(wr) ==
    IF wr = "open_error" THEN "PermissionError"
    ELSE IF wr = "dump_error" THEN "OSError"
    ELSE "none"

\* variant: only the new entry is dumped, not the loaded list
FileAfterWrite_OnlyNew(f, new_entries, wr) ==
    IF wr = "open_error" THEN f
    ELSE IF wr = "dump_error" THEN [state |-> "corrupt", entries |-> <<>>]
    ELSE [state |-> "ok", entries |-> <<new_entries[Len(new_entries)]>>]

\* the file after lines 101-102: open(..., 'w') truncates, json.dump writes
FileAfterWrite(f, new_entries, wr) ==
    IF wr = "open_error" THEN f
    ELSE IF wr = "dump_error" THEN CorruptFile
    ELSE LogFile(new_entries)

\* variant: the raw sample is stored instead of the filtered reading
Data_RawSample(reading) ==
    [timestamp |-> cycles, reading |-> raw_distance[1]]

\* data of _store_reading; the timestamp is the number of the cycle
Data(reading) == [timestamp |-> cycles, reading |-> reading]

-----------------------------------------------------------------------------
(* Environment inputs *)

MinTicks == MinValid * TicksPerCm
MaxTicks == MaxValid * TicksPerCm

\* advances of the clock between two reads while the echo is low: a short
\* one, and one that passes the deadline
RiseSteps == {MinTicks, TimeoutTicks + 1}
\* advances of the clock between two reads while the echo is high: around
\* both limits of the valid range, and one that passes the deadline
FallSteps ==
    {MinTicks - 1, MinTicks, MinTicks + 1, MaxTicks, MaxTicks + 1,
     TimeoutTicks + 1}
\* advances of the clock between the reads of lines 40 and 44
TriggerSteps == {0, 1}
FilterSteps == {MinTicks, MaxTicks, MaxTicks + 1}

ReadAnswers == {"ok", "error"}
WriteAnswers == {"ok", "open_error", "dump_error"}

PriorEntry == [timestamp |-> 0, reading |-> MockDefaultCm * 100]
InitialLogs ==
    {MissingFile, CorruptFile, LogFile(<<>>), LogFile(<<PriorEntry>>)}

-----------------------------------------------------------------------------
(* Initial state: after LiquidLevelSensor.__init__ *)

Writers == 1..NumWriters

\* no call of _store_reading has begun on the shared file
InitWriters(logs) ==
    /\ shared_log \in logs
    /\ w_pc = [w \in Writers |-> "idle"]
    /\ w_readings = [w \in Writers |-> <<>>]
    /\ w_data = [w \in Writers |-> PriorEntry]
    /\ w_done = [w \in Writers |-> 0]
    /\ store_clock = 0
    /\ overlapped = FALSE
    /\ begun = <<>>
    /\ shared_log0 = shared_log

\* no call of send_reading has been made
InitSend ==
    /\ send_pc = "idle"
    /\ reading_data = [fields |-> {}, serializable |-> TRUE]
    /\ max_retries = 0
    /\ retry_count = 0
    /\ validated = FALSE
    /\ attempts = <<>>
    /\ send_ret = None
    /\ send_calls = 0

\* no call of process_batch_readings has been made
InitBatch ==
    /\ batch_pc = "idle"
    /\ batch = <<>>
    /\ batch_i = 0
    /\ results = <<>>
    /\ batch_ret = None
    /\ batch_log = <<>>

\* after SystemIntegrator.__init__; mixer is what self.potion_mixer holds
InitIntegrator(mixers) ==
    /\ int_pc = "idle"
    /\ potion_mixer \in mixers
    /\ sensor_reading = None
    /\ command = None
    /\ sensor_success = FALSE
    /\ voice_success = FALSE
    /\ cycle_ret = None
    /\ cycle_raised = FALSE
    /\ monitor_cycles = 0
    /\ calls = <<>>
    /\ sensor_raised = FALSE
    /\ voice_raised = FALSE
    /\ mixer_result = None
    /\ sensor_ret = None
    /\ voice_ret = None

\* no call of _parse_command has been made
InitParse ==
    /\ parse_text = <<>>
    /\ parse_ret = None
    /\ parse_calls = 0

\* after WebSocketManager.__init__
InitManager ==
    /\ active_connections = <<>>
    /\ bc_pc = "idle"
    /\ bc_index = 0
    /\ connection = 0
    /\ bc_runs = 0
    /\ attempted = {}
    /\ send_failed = {}
    /\ throughout = {}

\* after PotionMixer.__init__; awaitable says whether the sensor passed in
\* has a get_filtered_reading whose result can be awaited
InitMixer(awaitable) ==
    /\ current_potion = None
    /\ last_measurement = None
    /\ sensor_awaitable \in awaitable
    /\ mixer_calls = 0
    /\ mixer_op = "none"
    /\ mixer_ret = None
    /\ mixer_raised = FALSE
    /\ mixer_sensor = "not_called"
    /\ delivery = None
    /\ current_potion0 = None
    /\ last_measurement0 = None
    /\ start_measurement = None

\* after RealTimeStream.__init__
InitStream ==
    /\ connected = FALSE
    /\ websocket = "none"
    /\ stream_calls = 0
    /\ stream_op = "none"
    /\ stream_ret = None
    /\ stream_raised = FALSE
    /\ connected0 = FALSE
    /\ connect_attempted = FALSE
    /\ connect_failed = FALSE
    /\ message_sent = FALSE

InitSensor(logs) ==
    /\ USING_MOCK \in BOOLEAN
    /\ readings = <<>>
    /\ log_file \in logs
    /\ pc = "idle"
    /\ clock = 0
    /\ timeout = 0
    /\ pulse_start = 0
    /\ pulse_end = 0
    /\ polls = 0
    /\ raw_distance = None
    /\ filtered_reading = 0
    /\ store_readings = <<>>
    /\ ret = None
    /\ raised = FALSE
    /\ cycles = 0
    /\ accepted = <<>>
    /\ timed_out = FALSE
    /\ fault = "none"
    /\ env_fault = FALSE
    /\ in_range = FALSE
    /\ readings0 = <<>>
    /\ log_file0 = log_file

InitWith(logs) ==
    /\ InitSensor(logs)
    /\ InitWriters({MissingFile})
    /\ InitSend
    /\ InitBatch
    /\ InitIntegrator({"absent"})
    /\ InitParse
    /\ InitManager
    /\ InitMixer({TRUE})
    /\ InitStream

Init == InitWith(InitialLogs)

-----------------------------------------------------------------------------
(* Actions *)

timingVars == <<clock, timeout, pulse_start, pulse_end, polls>>
historyVars == <<accepted, readings0, log_file0>>

\* the variables of the other components, which the sensor leaves alone
nonSensorVars == <<storeVars, sendVars, batchVars, integratorVars, parseVars,
      broadcastVars, mixerVars, streamVars>>

\* get_filtered_reading ends: it returns value when no exception reached its
\* try block (e = "none"), else lines 78-80 return None when the clause
\* matches e, else e reaches the caller
Return(value, e) ==
    /\ pc' = "idle"
    /\ ret' = IF e = "none" THEN value ELSE None
    /\ raised' = (e # "none" /\ ~GetFilteredReadingExcept(e))

\* the exception that leaves _store_reading when e is raised inside its try
StoreReadingEscapes(e) ==
    IF e = "none" \/ StoreReadingExcept(e) THEN "none" ELSE e

\* variant: the test of the deadline is left out of the loop
DeadlinePassed_Never(t, deadline) == FALSE

\* "if pulse_start > timeout: break" and "if pulse_end > timeout: break"
DeadlinePassed(t, deadline) == t > deadline

\* get_filtered_reading is called; _measure_distance lines 36-44.  The clock
\* is 0 at the read of line 40 and has advanced by d at the read of line 44.
Trigger(steps, maxCycles) ==
    /\ pc = "idle"
    /\ UNCHANGED nonSensorVars
    /\ cycles < maxCycles
    /\ cycles' = cycles + 1
    /\ pc' = "wait_rise"
    /\ pulse_start' = 0
    /\ pulse_end' = 0
    /\ \E d \in steps :
          /\ clock' = d
          /\ timeout' = clock' + TimeoutTicks
    /\ polls' = 0
    /\ raw_distance' = None
    /\ filtered_reading' = 0
    /\ store_readings' = <<>>
    /\ timed_out' = FALSE
    /\ fault' = "none"
    /\ env_fault' = FALSE
    /\ in_range' = FALSE
    /\ readings0' = readings
    /\ log_file0' = log_file
    /\ UNCHANGED <<USING_MOCK, readings, log_file, ret, raised, accepted>>

\* one test of "while GPIO.input(self.echo) == 0" and its body, lines 47-50
PollRise(steps, maxPolls) ==
    /\ pc = "wait_rise"
    /\ UNCHANGED nonSensorVars
    /\ \/ /\ pc' = "wait_fall"
          /\ UNCHANGED <<clock, pulse_start, polls, timed_out>>
       \/ /\ polls < maxPolls
          /\ \E d \in steps :
                /\ clock' = clock + d
                /\ pulse_start' = clock'
                /\ pc' = IF DeadlinePassed(pulse_start', timeout)
                         THEN "wait_fall" ELSE "wait_rise"
                /\ timed_out' = (timed_out \/ pulse_start' > timeout)
          /\ polls' = polls + 1
    /\ UNCHANGED <<USING_MOCK, readings, log_file, timeout, pulse_end,
                   raw_distance, filtered_reading, store_readings, ret, raised,
                   cycles, fault, env_fault, in_range, historyVars>>

\* one test of "while GPIO.input(self.echo) == 1" and its body, lines 53-56
PollFall(steps, maxPolls) ==
    /\ pc = "wait_fall"
    /\ UNCHANGED nonSensorVars
    /\ \/ /\ pc' = "convert"
          /\ UNCHANGED <<clock, pulse_end, polls, timed_out>>
       \/ /\ polls < maxPolls
          /\ \E d \in steps :
                /\ clock' = clock + d
                /\ pulse_end' = clock'
                /\ pc' = IF DeadlinePassed(pulse_end', timeout)
                         THEN "convert" ELSE "wait_fall"
                /\ timed_out' = (timed_out \/ pulse_end' > timeout)
          /\ polls' = polls + 1
    /\ UNCHANGED <<USING_MOCK, readings, log_file, timeout, pulse_start,
                   raw_distance, filtered_reading, store_readings, ret, raised,
                   cycles, fault, env_fault, in_range, historyVars>>

\* GPIO.input raises inside a wait loop; get_filtered_reading lines 78-80
GpioFault ==
    /\ pc \in {"wait_rise", "wait_fall"}
    /\ UNCHANGED nonSensorVars
    /\ fault' = "gpio"
    /\ env_fault' = TRUE
    /\ Return(None, "RuntimeError")
    /\ UNCHANGED <<USING_MOCK, readings, log_file, timingVars, raw_distance,
                   filtered_reading, store_readings, cycles, timed_out,
                   in_range, historyVars>>

\* _measure_distance lines 58-66 and the assignment of line 71
Convert ==
    /\ pc = "convert"
    /\ UNCHANGED nonSensorVars
    /\ raw_distance' = MeasureDistanceResult(pulse_start, pulse_end, USING_MOCK)
    /\ in_range' = (MinTicks <= pulse_end - pulse_start
                       /\ pulse_end - pulse_start <= MaxTicks)
    /\ pc' = "filter"
    /\ UNCHANGED <<USING_MOCK, readings, log_file, timingVars,
                   filtered_reading, store_readings, ret, raised, cycles,
                   timed_out, fault, env_fault, historyVars>>

\* get_filtered_reading lines 72-74, or line 77 when raw_distance is None
Filter ==
    /\ pc = "filter"
    /\ UNCHANGED nonSensorVars
    /\ clock' = 0
    /\ timeout' = 0
    /\ pulse_start' = 0
    /\ pulse_end' = 0
    /\ polls' = 0
    /\ IF raw_distance = None
       THEN /\ Return(None, "none")
            /\ UNCHANGED <<readings, filtered_reading, accepted, fault>>
       ELSE /\ readings' = DequeAppend(readings, raw_distance[1], sample_window)
            /\ accepted' = Append(accepted, raw_distance[1])
            /\ IF Len(readings') = 0
               THEN \* sum(...)/len(...) divides by zero
                    /\ fault' = "mean"
                    /\ Return(None, "ZeroDivisionError")
                    /\ UNCHANGED filtered_reading
               ELSE /\ filtered_reading' = FilteredReading(readings')
                    /\ pc' = "store_load"
                    /\ UNCHANGED <<ret, raised, fault>>
    /\ UNCHANGED <<USING_MOCK, log_file, raw_distance, store_readings, cycles,
                   timed_out, env_fault, in_range, readings0, log_file0>>

\* _store_reading lines 84-95, with the handlers of lines 94 and 103
StoreLoad(answers) ==
    /\ pc = "store_load"
    /\ UNCHANGED nonSensorVars
    /\ \E rd \in answers :
          LET e == LoadRaises(log_file, rd)
          IN  /\ env_fault' = (env_fault \/ e = "PermissionError")
              /\ IF e = "none" \/ LoadExcept(e)
                 THEN /\ store_readings' =
                             IF e = "none" THEN log_file.entries ELSE <<>>
                      /\ pc' = "store_write"
                      /\ UNCHANGED <<ret, raised, fault>>
                 ELSE /\ fault' = "load"
                      /\ Return(Some(filtered_reading), StoreReadingEscapes(e))
                      /\ UNCHANGED store_readings
    /\ UNCHANGED <<USING_MOCK, readings, log_file, timingVars, raw_distance,
                   filtered_reading, cycles, timed_out, in_range, historyVars>>

\* _store_reading lines 98-104, then get_filtered_reading line 76
StoreWrite(answers) ==
    /\ pc = "store_write"
    /\ UNCHANGED nonSensorVars
    /\ \E wr \in answers :
          LET e == WriteRaises(wr)
              new_readings == Append(store_readings, Data(filtered_reading))
          IN  /\ log_file' = FileAfterWrite(log_file, new_readings, wr)
              /\ store_readings' = new_readings
              /\ fault' = IF e = "none" THEN "none" ELSE "write"
              /\ env_fault' = (env_fault \/ e # "none")
              /\ Return(Some(filtered_reading), StoreReadingEscapes(e))
    /\ UNCHANGED <<USING_MOCK, readings, timingVars, raw_distance,
                   filtered_reading, cycles, timed_out, in_range, historyVars>>

Next ==
    \/ Trigger(TriggerSteps, MaxCycles)
    \/ PollRise(RiseSteps, MaxPolls)
    \/ PollFall(FallSteps, MaxPolls)
    \/ GpioFault
    \/ Convert
    \/ Filter
    \/ StoreLoad(ReadAnswers)
    \/ StoreWrite(WriteAnswers)

Spec == Init /\ [][Next]_vars

\* many cycles with one poll per cycle and a file system that does not fail
InitFilter == InitWith({MissingFile})

NextFilter ==
    \/ Trigger({0}, FilterCycles)
    \/ PollRise(FilterSteps, 1)
    \/ PollFall(FilterSteps, 1)
    \/ Convert
    \/ Filter
    \/ StoreLoad({"ok"})
    \/ StoreWrite({"ok"})

SpecFilter == InitFilter /\ [][NextFilter]_vars

\* the wait loops with no bound on their iterations other than the clock:
\* every read of the clock finds it advanced, and the program keeps running
PulseSteps == {TimeoutTicks \div 3, TimeoutTicks \div 2, TimeoutTicks + 1}

InitPulse == InitWith({MissingFile})

NextPulse ==
    \/ Trigger(TriggerSteps, MaxCycles)
    \/ PollRise(PulseSteps, TimeoutTicks + 2)
    \/ PollFall(PulseSteps, TimeoutTicks + 2)
    \/ Convert
    \/ Filter
    \/ StoreLoad({"ok"})
    \/ StoreWrite({"ok"})

SpecPulse == InitPulse /\ [][NextPulse]_vars /\ WF_vars(NextPulse)

-----------------------------------------------------------------------------
(* Concurrent calls of _store_reading on one log file *)

\* the file between open(self.log_file, 'w') and json.dump: it is empty,
\* and json.load of an empty file raises JSONDecodeError
TruncatedFile == CorruptFile

\* data of _store_reading in a writer; the timestamp is the number of the call
WriterData(n) == [timestamp |-> n, reading |-> MockDefaultCm * 100]

\* lines 84-99 in writer w: build data, load the list, append data to it;
\* an exception other than FileNotFoundError ends the call at line 103
WriterLoad(w) ==
    /\ w_pc[w] = "idle"
    /\ w_done[w] < MaxAppends
    /\ store_clock' = store_clock + 1
    /\ w_data' = [w_data EXCEPT ![w] = WriterData(store_clock')]
    /\ begun' = Append(begun, w_data'[w])
    /\ overlapped' = (overlapped \/ \E o \in Writers \ {w} : w_pc[o] # "idle")
    /\ LET e == LoadRaises(shared_log, "ok")
       IN  IF e = "none" \/ LoadExcept(e)
           THEN /\ w_readings' =
                      [w_readings EXCEPT ![w] =
                          Append(IF e = "none" THEN shared_log.entries
                                 ELSE <<>>, w_data'[w])]
                /\ w_pc' = [w_pc EXCEPT ![w] = "loaded"]
                /\ UNCHANGED w_done
           ELSE /\ StoreReadingExcept(e)
                /\ w_done' = [w_done EXCEPT ![w] = @ + 1]
                /\ UNCHANGED <<w_readings, w_pc>>
    /\ UNCHANGED <<shared_log, shared_log0, nonStoreVars>>

\* line 101 in writer w: open(self.log_file, 'w') truncates the file
WriterOpen(w) ==
    /\ w_pc[w] = "loaded"
    /\ shared_log' = TruncatedFile
    /\ w_pc' = [w_pc EXCEPT ![w] = "opened"]
    /\ UNCHANGED <<w_readings, w_data, w_done, store_clock, overlapped, begun,
                   shared_log0, nonStoreVars>>

\* line 102 in writer w: json.dump(readings, f), and the file is closed
WriterDump(w) ==
    /\ w_pc[w] = "opened"
    /\ shared_log' = FileAfterWrite(shared_log, w_readings[w], "ok")
    /\ w_pc' = [w_pc EXCEPT ![w] = "idle"]
    /\ w_done' = [w_done EXCEPT ![w] = @ + 1]
    /\ UNCHANGED <<w_readings, w_data, store_clock, overlapped, begun,
                   shared_log0, nonStoreVars>>

InitStore ==
    /\ InitSensor({MissingFile})
    /\ InitWriters({MissingFile, LogFile(<<>>), LogFile(<<PriorEntry>>)})
    /\ InitSend
    /\ InitBatch
    /\ InitIntegrator({"absent"})
    /\ InitParse
    /\ InitManager
    /\ InitMixer({TRUE})
    /\ InitStream

NextStore ==
    \/ \E w \in Writers : WriterLoad(w)
    \/ \E w \in Writers : WriterOpen(w)
    \/ \E w \in Writers : WriterDump(w)

SpecStore == InitStore /\ [][NextStore]_vars

-----------------------------------------------------------------------------
(* PowerAutomateIntegration.send_reading *)

\* variant: a reading with any one of the required keys is valid
ValidateReading_Any(fields) == \E field \in required_fields : field \in fields

\* _validate_reading: all(field in reading_data for field in required_fields)
ValidateReading(fields) == \A field \in required_fields : field \in fields

\* variant: every 2xx status is a success
IsAccepted_AnySuccess(status_code) == status_code \div 100 = 2

\* line 26: response.status_code == 202
IsAccepted(status_code) == status_code = AcceptedStatus

\* variant: the loop runs once more
LoopContinues_Inclusive(count, limit) == count <= limit

\* line 19: while retry_count < max_retries
LoopContinues(count, limit) == count < limit

\* the keys a caller may put in a reading, and the statuses a POST may get
FieldNames == {"timestamp", "reading", "status", "unit"}
Statuses == {200, 202, 400, 500}

\* the outcomes of one iteration of the loop: a response, an exception inside
\* requests.post, an exception inside json.dumps (requests.post not called)
Response(status_code) == [kind |-> "response", status |-> status_code]
PostError == [kind |-> "post_error", status |-> 0]
DumpsError == [kind |-> "dumps_error", status |-> 0]

\* lines 19 and 38: the loop is entered again, or send_reading returns False
LoopOrReturnFalse(count, limit) ==
    IF LoopContinues(count, limit)
    THEN /\ send_pc' = "posting"
         /\ UNCHANGED send_ret
    ELSE /\ send_pc' = "idle"
         /\ send_ret' = Some(FALSE)

\* lines 12-19: a call of send_reading up to the first test of the loop
SendCall(data, mr) ==
    /\ send_calls' = send_calls + 1
    /\ reading_data' = data
    /\ max_retries' = mr
    /\ validated' = ValidateReading(data.fields)
    /\ attempts' = <<>>
    /\ retry_count' = 0
    /\ IF ~validated'
       THEN /\ send_pc' = "idle"
            /\ send_ret' = Some(FALSE)
       ELSE LoopOrReturnFalse(0, max_retries')

\* send_reading called with any reading and any max_retries
SendReading(maxCalls) ==
    /\ send_pc = "idle"
    /\ send_calls < maxCalls
    /\ \E fields \in SUBSET FieldNames, ser \in BOOLEAN, mr \in 0..MaxRetries :
          SendCall([fields |-> fields, serializable |-> ser], mr)
    /\ UNCHANGED nonSendVars

\* lines 20-31: one iteration in which requests.post returns a response
Post(statuses) ==
    /\ send_pc = "posting"
    /\ reading_data.serializable
    /\ \E status_code \in statuses :
          /\ attempts' = Append(attempts, Response(status_code))
          /\ IF IsAccepted(status_code)
             THEN /\ send_pc' = "idle"
                  /\ send_ret' = Some(TRUE)
                  /\ UNCHANGED retry_count
             ELSE /\ retry_count' = retry_count + 1
                  /\ LoopOrReturnFalse(retry_count', max_retries)
    /\ UNCHANGED <<reading_data, max_retries, validated, send_calls,
                   nonSendVars>>

\* lines 20-25, 33-36: one iteration in which requests.post raises
PostRaises ==
    /\ send_pc = "posting"
    /\ reading_data.serializable
    /\ attempts' = Append(attempts, PostError)
    /\ retry_count' = retry_count + 1
    /\ LoopOrReturnFalse(retry_count', max_retries)
    /\ UNCHANGED <<reading_data, max_retries, validated, send_calls,
                   nonSendVars>>

\* lines 20-25, 33-36: one iteration in which json.dumps(reading_data)
\* raises TypeError, before requests.post is called
DumpsRaises ==
    /\ send_pc = "posting"
    /\ ~reading_data.serializable
    /\ attempts' = Append(attempts, DumpsError)
    /\ retry_count' = retry_count + 1
    /\ LoopOrReturnFalse(retry_count', max_retries)
    /\ UNCHANGED <<reading_data, max_retries, validated, send_calls,
                   nonSendVars>>

InitSendReading ==
    /\ InitSensor({MissingFile})
    /\ InitWriters({MissingFile})
    /\ InitSend
    /\ InitBatch
    /\ InitIntegrator({"absent"})
    /\ InitParse
    /\ InitManager
    /\ InitMixer({TRUE})
    /\ InitStream

NextSend ==
    \/ SendReading(MaxSendCalls)
    \/ Post(Statuses)
    \/ PostRaises
    \/ DumpsRaises

\* every call of requests.post and of json.dumps returns or raises
SpecSend == InitSendReading /\ [][NextSend]_vars /\ WF_vars(NextSend)

-----------------------------------------------------------------------------
(* PowerAutomateIntegration.process_batch_readings *)

\* variant: the newest result is put first
AppendResult_Prepend(list, result) == <<result>> \o list

\* line 49: results.append(result)
AppendResult(list, result) == Append(list, result)

\* the readings a batch is made of: a complete one, one that lacks two
\* required keys, a complete one that json.dumps rejects
CompleteReading == [fields |-> required_fields, serializable |-> TRUE]
PartialReading == [fields |-> {"timestamp"}, serializable |-> TRUE]
UndumpableReading == [fields |-> required_fields, serializable |-> FALSE]
BatchReadings == {CompleteReading, PartialReading, UndumpableReading}
BatchStatuses == {AcceptedStatus, 500}

Batches == UNION {[1..n -> BatchReadings] : n \in 0..MaxBatch}

\* lines 44-46: process_batch_readings is called
ProcessBatchReadings ==
    /\ batch_pc = "idle"
    /\ batch_ret = None
    /\ send_pc = "idle"
    /\ batch' \in Batches
    /\ batch_i' = 1
    /\ results' = <<>>
    /\ batch_log' = <<>>
    /\ batch_pc' = "loop"
    /\ UNCHANGED <<batch_ret, sendVars, nonBatchVars>>

\* lines 47-48: the next reading is taken and send_reading is called on it
BatchSend ==
    /\ batch_pc = "loop"
    /\ batch_i <= Len(batch)
    /\ SendCall(batch[batch_i], DefaultMaxRetries)
    /\ batch_pc' = "sending"
    /\ UNCHANGED <<batch, batch_i, results, batch_ret, batch_log,
                   nonBatchVars>>

\* lines 48-49: send_reading has returned; its result is appended
BatchAppend ==
    /\ batch_pc = "sending"
    /\ send_pc = "idle"
    /\ results' = AppendResult(results, send_ret[1])
    /\ batch_log' =
          Append(batch_log, [reading |-> reading_data, attempts |-> attempts])
    /\ batch_i' = batch_i + 1
    /\ batch_pc' = "loop"
    /\ UNCHANGED <<batch, batch_ret, sendVars, nonBatchVars>>

\* line 50: the for loop is exhausted
BatchReturn ==
    /\ batch_pc = "loop"
    /\ batch_i > Len(batch)
    /\ batch_ret' = Some(results)
    /\ batch_pc' = "idle"
    /\ UNCHANGED <<batch, batch_i, results, batch_log, sendVars,
                   nonBatchVars>>

InitProcessBatch ==
    /\ InitSensor({MissingFile})
    /\ InitWriters({MissingFile})
    /\ InitSend
    /\ InitBatch
    /\ InitIntegrator({"absent"})
    /\ InitParse
    /\ InitManager
    /\ InitMixer({TRUE})
    /\ InitStream

NextBatch ==
    \/ ProcessBatchReadings
    \/ BatchSend
    \/ BatchAppend
    \/ BatchReturn
    \/ Post(BatchStatuses)
    \/ PostRaises
    \/ DumpsRaises

SpecBatch == InitProcessBatch /\ [][NextBatch]_vars

-----------------------------------------------------------------------------
(* SystemIntegrator: run_monitoring_cycle, process_sensor_reading and       *)
(* process_voice_command of integration_script.py.  The sensor, the voice   *)
(* recognizer, the connector and the potion mixer are the objects passed   *)
(* in; what they return or raise is the environment's choice.               *)

IntegratorExceptions == ExceptionTypes \cup {"AttributeError", "TypeError"}

\* variant: the clause is "except OSError"
ProcessExcept_OnlyOSError(e) == e \in {"PermissionError", "OSError"}

\* lines 41 and 71: except Exception
ProcessExcept(e) == e \in IntegratorExceptions

\* line 86: except Exception
CycleExcept(e) == e \in IntegratorExceptions

\* variant: the test is left out
HasReading_Always(r) == TRUE

\* line 30: reading is not None
HasReading(r) == r # None

\* variant: the message carries no value
SensorMessage_NoValue(r) == [type |-> "sensor_reading", value |-> None]

\* lines 34-38: the message broadcast for a reading
SensorMessage(r) == [type |-> "sensor_reading", value |-> r]

\* one call on a collaborator
Call(op, arg) == [op |-> op, arg |-> arg]

\* what the sensor returns (hundredths of a centimetre), and what a potion
\* mixer operation returns (None: it raised)
SensorReadings == {None, Some(MinValid * 100), Some(MockDefaultCm * 100 + 50)}
MixerOutcomes == {None, Some(TRUE), Some(FALSE)}

\* voice_recognizer.command_keywords['ingredient_type'], in the order of
\* the dict
IngredientTypes ==
    <<"dragon_blood", "phoenix_tears", "unicorn_hair", "mandrake_root">>
IngredientKeywords ==
    [dragon_blood |-> {"dragon blood", "blood of dragon"},
     phoenix_tears |-> {"phoenix tears", "tears of phoenix"},
     unicorn_hair |-> {"unicorn hair", "hair of unicorn"},
     mandrake_root |-> {"mandrake root", "root of mandrake"}]

\* the elements a command list is made of: the categories of _parse_command
\* and, for a recognizer that returns them, keywords of ingredients
CommandElements ==
    {"start_potion", "add_ingredient", "complete_potion", "dragon blood",
     "phoenix tears"}
Commands == {None} \cup {Some(c) : c \in SUBSET CommandElements}

\* lines 57-61: the first ingredient type one of whose keywords is an
\* element of command, or None
RECURSIVE FindIngredient(_, _)
FindIngredient(cmd, i) ==
    IF i > Len(IngredientTypes) THEN None
    ELSE IF IngredientKeywords[IngredientTypes[i]] \cap cmd # {}
         THEN Some(IngredientTypes[i])
         ELSE FindIngredient(cmd, i + 1)

\* how process_sensor_reading ends: it returns value, or e was raised in it
SensorStepEnds(value, e) ==
    IF e = "none" \/ ProcessExcept(e)
    THEN /\ sensor_ret' = Some(e = "none" /\ value)
         /\ sensor_success' = (e = "none" /\ value)
         /\ int_pc' = "sleep"
         /\ UNCHANGED cycle_raised
    ELSE /\ sensor_ret' = None
         /\ UNCHANGED sensor_success
         /\ int_pc' = IF CycleExcept(e) THEN "return" ELSE "idle"
         /\ cycle_raised' = ~CycleExcept(e)

\* how process_voice_command ends
VoiceStepEnds(value, e) ==
    IF e = "none" \/ ProcessExcept(e)
    THEN /\ voice_ret' = Some(e = "none" /\ value)
         /\ voice_success' = (e = "none" /\ value)
         /\ int_pc' = "return"
         /\ UNCHANGED cycle_raised
    ELSE /\ voice_ret' = None
         /\ UNCHANGED voice_success
         /\ int_pc' = IF CycleExcept(e) THEN "return" ELSE "idle"
         /\ cycle_raised' = ~CycleExcept(e)

\* lines 75-83: run_monitoring_cycle is called
RunMonitoringCycle ==
    /\ int_pc = "idle"
    /\ monitor_cycles < MaxMonitorCycles
    /\ monitor_cycles' = monitor_cycles + 1
    /\ int_pc' = "sensor"
    /\ sensor_success' = FALSE
    /\ voice_success' = FALSE
    /\ sensor_reading' = None
    /\ command' = None
    /\ cycle_ret' = None
    /\ cycle_raised' = FALSE
    /\ calls' = <<>>
    /\ sensor_raised' = FALSE
    /\ voice_raised' = FALSE
    /\ mixer_result' = None
    /\ sensor_ret' = None
    /\ voice_ret' = None
    /\ UNCHANGED <<potion_mixer, nonIntegratorVars>>

\* lines 28-30, 40-43: the sensor is read
GetReading ==
    /\ int_pc = "sensor"
    /\ calls' = Append(calls, Call("get_filtered_reading", None))
    /\ \/ \E r \in SensorReadings :
             /\ sensor_reading' = r
             /\ UNCHANGED sensor_raised
             /\ IF HasReading(r)
                THEN /\ int_pc' = "send_sensor_data"
                     /\ UNCHANGED <<sensor_ret, sensor_success, cycle_raised>>
                ELSE SensorStepEnds(FALSE, "none")
       \/ /\ sensor_raised' = TRUE
          /\ UNCHANGED sensor_reading
          /\ SensorStepEnds(FALSE, "RuntimeError")
    /\ UNCHANGED <<potion_mixer, command, voice_success, cycle_ret,
                   monitor_cycles, voice_raised, mixer_result, voice_ret,
                   nonIntegratorVars>>

\* line 32: send_sensor_data(reading); it returns True or False
\* (powerautomate_script.py lines 59-74), which is not looked at
SendSensorData ==
    /\ int_pc = "send_sensor_data"
    /\ calls' = Append(calls, Call("send_sensor_data", sensor_reading))
    /\ int_pc' = "broadcast"
    /\ UNCHANGED <<potion_mixer, sensor_reading, command, sensor_success,
                   voice_success, cycle_ret, cycle_raised, monitor_cycles,
                   sensor_raised, voice_raised, mixer_result, sensor_ret,
                   voice_ret, nonIntegratorVars>>

\* lines 34-39: the reading is broadcast and process_sensor_reading returns
BroadcastReading ==
    /\ int_pc = "broadcast"
    /\ calls' = Append(calls, Call("broadcast", SensorMessage(sensor_reading)))
    /\ SensorStepEnds(TRUE, "none")
    /\ UNCHANGED <<potion_mixer, sensor_reading, command, voice_success,
                   cycle_ret, monitor_cycles, sensor_raised, voice_raised,
                   mixer_result, voice_ret, nonIntegratorVars>>

\* line 84: await asyncio.sleep(interval)
Sleep ==
    /\ int_pc = "sleep"
    /\ int_pc' = "listen"
    /\ UNCHANGED <<potion_mixer, sensor_reading, command, sensor_success,
                   voice_success, cycle_ret, cycle_raised, monitor_cycles,
                   calls, sensor_raised, voice_raised, mixer_result,
                   sensor_ret, voice_ret, nonIntegratorVars>>

\* lines 47-50: the recognizer is asked for a command
ListenForCommand ==
    /\ int_pc = "listen"
    /\ calls' = Append(calls, Call("listen_for_command", None))
    /\ \/ \E c \in Commands :
             /\ command' = c
             /\ UNCHANGED voice_raised
             /\ IF c = None \/ c = Some({})
                THEN VoiceStepEnds(FALSE, "none")
                ELSE /\ int_pc' = "dispatch"
                     /\ UNCHANGED <<voice_ret, voice_success, cycle_raised>>
       \/ /\ voice_raised' = TRUE
          /\ UNCHANGED command
          /\ VoiceStepEnds(FALSE, "RuntimeError")
    /\ UNCHANGED <<potion_mixer, sensor_reading, sensor_success, cycle_ret,
                   monitor_cycles, sensor_raised, mixer_result, sensor_ret,
                   nonIntegratorVars>>

\* a call of self.potion_mixer.op(arg): AttributeError when potion_mixer is
\* None, else the operation is invoked and returns or raises
InvokeMixer(op, arg) ==
    IF potion_mixer = "absent"
    THEN /\ VoiceStepEnds(FALSE, "AttributeError")
         /\ UNCHANGED <<calls, mixer_result>>
    ELSE /\ calls' = Append(calls, Call(op, arg))
         /\ \E outcome \in MixerOutcomes :
               /\ mixer_result' = outcome
               /\ IF outcome = None
                  THEN VoiceStepEnds(FALSE, "TypeError")
                  ELSE VoiceStepEnds(outcome[1], "none")

dispatchUnchanged ==
    <<potion_mixer, sensor_reading, command, sensor_success, cycle_ret,
      monitor_cycles, sensor_raised, voice_raised, sensor_ret,
      nonIntegratorVars>>

\* lines 52-53
DispatchStartPotion ==
    /\ int_pc = "dispatch"
    /\ "start_potion" \in command[1]
    /\ InvokeMixer("start_new_potion", None)
    /\ UNCHANGED dispatchUnchanged

\* lines 55-64
DispatchAddIngredient ==
    /\ int_pc = "dispatch"
    /\ "start_potion" \notin command[1]
    /\ "add_ingredient" \in command[1]
    /\ FindIngredient(command[1], 1) # None
    /\ InvokeMixer("add_ingredient", FindIngredient(command[1], 1))
    /\ UNCHANGED dispatchUnchanged

\* lines 66-67
DispatchCompletePotion ==
    /\ int_pc = "dispatch"
    /\ "start_potion" \notin command[1]
    /\ ~("add_ingredient" \in command[1] /\ FindIngredient(command[1], 1) # None)
    /\ "complete_potion" \in command[1]
    /\ InvokeMixer("complete_potion", None)
    /\ UNCHANGED dispatchUnchanged

\* line 69
DispatchNothing ==
    /\ int_pc = "dispatch"
    /\ "start_potion" \notin command[1]
    /\ ~("add_ingredient" \in command[1] /\ FindIngredient(command[1], 1) # None)
    /\ "complete_potion" \notin command[1]
    /\ VoiceStepEnds(FALSE, "none")
    /\ UNCHANGED <<calls, mixer_result, dispatchUnchanged>>

\* line 89: return results
ReturnResults ==
    /\ int_pc = "return"
    /\ cycle_ret' =
          Some([sensor_success |-> sensor_success,
                voice_success |-> voice_success])
    /\ int_pc' = "idle"
    /\ UNCHANGED <<potion_mixer, sensor_reading, command, sensor_success,
                   voice_success, cycle_raised, monitor_cycles, calls,
                   sensor_raised, voice_raised, mixer_result, sensor_ret,
                   voice_ret, nonIntegratorVars>>

\* potion_mixer is None after __init__ (line 21 imports a module potion_mixer
\* that the repository does not have) unless the caller assigns one
InitMonitoring ==
    /\ InitSensor({MissingFile})
    /\ InitWriters({MissingFile})
    /\ InitSend
    /\ InitBatch
    /\ InitIntegrator({"absent", "present"})
    /\ InitParse
    /\ InitManager
    /\ InitMixer({TRUE})
    /\ InitStream

NextMonitoring ==
    \/ RunMonitoringCycle
    \/ GetReading
    \/ SendSensorData
    \/ BroadcastReading
    \/ Sleep
    \/ ListenForCommand
    \/ DispatchStartPotion
    \/ DispatchAddIngredient
    \/ DispatchCompletePotion
    \/ DispatchNothing
    \/ ReturnResults

SpecMonitoring == InitMonitoring /\ [][NextMonitoring]_vars

-----------------------------------------------------------------------------
(* VoiceCommandRecognizer._parse_command of voice_script.py.  A text is a   *)
(* sequence of words separated by single blanks, a keyword is a sequence    *)
(* of words, and "keyword in text" is the keyword occurring as a run of     *)
(* consecutive words of the text.                                           *)

\* self.command_keywords, in the order of the dict
Categories ==
    <<"start_potion", "add_ingredient", "ingredient_type", "complete_potion">>

\* the values of command_keywords that are lists
command_keywords ==
    [start_potion |->
         {<<"begin", "potion">>, <<"start", "potion">>, <<"create", "potion">>},
     add_ingredient |-> {<<"added">>, <<"inserted">>, <<"mixed", "in">>},
     complete_potion |->
         {<<"complete", "elixir">>, <<"finish", "potion">>,
          <<"finalize", "mixture">>}]

\* command_keywords['ingredient_type'], a dict of lists
ingredient_type ==
    [dragon_blood |-> {<<"dragon", "blood">>, <<"blood", "of", "dragon">>},
     phoenix_tears |-> {<<"phoenix", "tears">>, <<"tears", "of", "phoenix">>},
     unicorn_hair |-> {<<"unicorn", "hair">>, <<"hair", "of", "unicorn">>},
     mandrake_root |-> {<<"mandrake", "root">>, <<"root", "of", "mandrake">>}]

\* "for keyword in keywords" at line 95: the elements of a list, the keys of
\* a dict
IterKeywords(category) ==
    IF category = "ingredient_type"
    THEN {<<k>> : k \in DOMAIN ingredient_type}
    ELSE command_keywords[category]

\* the words a text is made of; two of them have capitals
Words ==
    {"start", "Start", "potion", "Added", "dragon", "blood", "dragon_blood",
     "tea"}

\* str.lower() of one word
LowerWord(w) ==
    CASE w = "Start" -> "start"
      [] w = "Added" -> "added"
      [] OTHER -> w

\* line 91: text.lower()
Lower(text) == [i \in 1..Len(text) |-> LowerWord(text[i])]

\* line 96: keyword in text
Occurs(keyword, text) ==
    \E i \in 1..(Len(text) - Len(keyword) + 1) :
        SubSeq(text, i, i + Len(keyword) - 1) = keyword

\* lines 92-97: command_scores[category]
CommandScore(category, text) ==
    Cardinality({k \in IterKeywords(category) : Occurs(k, text)})

IsPositive(score) == score > 0

\* lines 88-102
ParseCommand(text) ==
    IF text = <<>> THEN None
    ELSE LET lowered == Lower(text)
             found == SelectSeq(Categories,
                         LAMBDA c : IsPositive(CommandScore(c, lowered)))
         IN  IF \E i \in 1..Len(Categories) :
                    CommandScore(Categories[i], lowered) >= 1
             THEN Some(found)
             ELSE None

Texts == UNION {[1..n -> Words] : n \in 0..MaxTextLen}

\* _parse_command is called on a text
ParseCommandCall ==
    /\ parse_calls < MaxParseCalls
    /\ parse_calls' = parse_calls + 1
    /\ \E text \in Texts :
          /\ parse_text' = text
          /\ parse_ret' = ParseCommand(text)
    /\ UNCHANGED nonParseVars

InitParseCommand ==
    /\ InitSensor({MissingFile})
    /\ InitWriters({MissingFile})
    /\ InitSend
    /\ InitBatch
    /\ InitIntegrator({"absent"})
    /\ InitParse
    /\ InitManager
    /\ InitMixer({TRUE})
    /\ InitStream

NextParse == ParseCommandCall

SpecParse == InitParseCommand /\ [][NextParse]_vars

-----------------------------------------------------------------------------
(* WebSocketManager of websocket_server.py.  The coroutines run on one      *)
(* event loop: a step runs from one await to the next, and the endpoints    *)
(* of the connections run while broadcast waits in send_json.               *)

Connections == 1..NumConnections

Elements(list) == {list[i] : i \in 1..Len(list)}

\* list.remove(x): the first occurrence of x is taken out
ListRemove(list, x) ==
    LET first == CHOOSE i \in 1..Len(list) :
                     list[i] = x /\ \A j \in 1..(i - 1) : list[j] # x
    IN  SubSeq(list, 1, first - 1) \o SubSeq(list, first + 1, Len(list))

\* the for loop of line 30 asks its list iterator for the next element: the
\* element at the iterator's position in the list as it is now, or the end
\* of the loop when the position is past the end of the list
ForNext(index, sent) ==
    IF index < Len(active_connections)
    THEN /\ connection' = active_connections[index + 1]
         /\ bc_index' = index + 1
         /\ attempted' = sent \cup {connection'}
         /\ bc_pc' = "sending"
         /\ UNCHANGED bc_runs
    ELSE /\ bc_pc' = "idle"
         /\ bc_runs' = bc_runs + 1
         /\ attempted' = sent
         /\ UNCHANGED <<connection, bc_index>>

\* lines 22-24, from websocket_endpoint line 40
Connect(c) ==
    /\ c \notin Elements(active_connections)
    /\ active_connections' = Append(active_connections, c)
    /\ UNCHANGED <<bc_pc, bc_index, connection, bc_runs, attempted,
                   send_failed, throughout, nonBroadcastVars>>

\* lines 26-27, from websocket_endpoint lines 45-48: receive_text raised
Disconnect(c) ==
    /\ c \in Elements(active_connections)
    /\ active_connections' = ListRemove(active_connections, c)
    /\ throughout' = throughout \ {c}
    /\ UNCHANGED <<bc_pc, bc_index, connection, bc_runs, attempted,
                   send_failed, nonBroadcastVars>>

\* lines 29-32: broadcast is called and reaches its first await
Broadcast ==
    /\ bc_pc = "idle"
    /\ bc_runs < MaxBroadcasts
    /\ throughout' = Elements(active_connections)
    /\ send_failed' = {}
    /\ UNCHANGED active_connections
    /\ ForNext(0, {})
    /\ UNCHANGED nonBroadcastVars

\* lines 32-34, then line 30: send_json returns or raises, and the loop
\* goes on to its next await or ends
SendJsonEnds ==
    /\ bc_pc = "sending"
    /\ \E ok \in BOOLEAN :
          send_failed' = IF ok THEN send_failed ELSE send_failed \cup {connection}
    /\ UNCHANGED <<active_connections, throughout>>
    /\ ForNext(bc_index, attempted)
    /\ UNCHANGED nonBroadcastVars

InitBroadcast ==
    /\ InitSensor({MissingFile})
    /\ InitWriters({MissingFile})
    /\ InitSend
    /\ InitBatch
    /\ InitIntegrator({"absent"})
    /\ InitParse
    /\ InitManager
    /\ InitMixer({TRUE})
    /\ InitStream

NextBroadcast ==
    \/ \E c \in Connections : Connect(c)
    \/ \E c \in Connections : Disconnect(c)
    \/ Broadcast
    \/ SendJsonEnds

SpecBroadcast == InitBroadcast /\ [][NextBroadcast]_vars

-----------------------------------------------------------------------------
(* PotionMixer of voice_script.py.  Its operations are called one at a      *)
(* time; the sensor and the connector are the objects passed in.            *)

\* variant: the session is cleared whatever send_potion_data returned
Delivered_Always(result) == TRUE

\* line 170: if result
Delivered(result) == result = Some(TRUE)

\* what an awaited get_filtered_reading returns (hundredths)
Measurements == {None, Some(1000), Some(1250)}
\* what "await self.sensor.get_filtered_reading()" does: the value awaited,
\* or TypeError when the method is a plain function, as the one of
\* LiquidLevelSensor is
SensorAnswers ==
    IF sensor_awaitable
    THEN {[did |-> IF v = None THEN "absent" ELSE "value", value |-> v] :
              v \in Measurements}
    ELSE {[did |-> "raised", value |-> None]}

MixerIngredients == {"dragon_blood", "phoenix_tears"}

\* lines 130-134
NewPotion(t) == [start_time |-> t, ingredients |-> <<>>, total_volume |-> 0]

\* what every operation does first and last
MixerCall(op) ==
    /\ mixer_calls < MaxMixerCalls
    /\ mixer_calls' = mixer_calls + 1
    /\ mixer_op' = op
    /\ current_potion0' = current_potion
    /\ last_measurement0' = last_measurement
    /\ UNCHANGED <<sensor_awaitable, nonMixerVars>>

\* lines 128-136
StartNewPotion ==
    /\ MixerCall("start_new_potion")
    /\ current_potion' = Some(NewPotion(mixer_calls'))
    /\ delivery' = None
    /\ \E answer \in SensorAnswers :
          /\ mixer_sensor' = answer.did
          /\ IF answer.did = "raised"
             THEN /\ mixer_raised' = TRUE
                  /\ mixer_ret' = None
                  /\ start_measurement' = None
                  /\ UNCHANGED last_measurement
             ELSE /\ last_measurement' = answer.value
                  /\ start_measurement' = answer.value
                  /\ mixer_raised' = FALSE
                  /\ mixer_ret' = Some(TRUE)

\* lines 138-160
AddIngredient(ingredient_name) ==
    /\ MixerCall("add_ingredient")
    /\ delivery' = None
    /\ UNCHANGED start_measurement
    /\ IF current_potion = None
       THEN /\ mixer_ret' = Some(FALSE)
            /\ mixer_raised' = FALSE
            /\ mixer_sensor' = "not_called"
            /\ UNCHANGED <<current_potion, last_measurement>>
       ELSE \E answer \in SensorAnswers :
              /\ mixer_sensor' = answer.did
              /\ IF answer.did = "raised"
                 THEN /\ mixer_raised' = TRUE
                      /\ mixer_ret' = None
                      /\ UNCHANGED <<current_potion, last_measurement>>
                 ELSE IF answer.value = None
                 THEN /\ mixer_ret' = Some(FALSE)
                      /\ mixer_raised' = FALSE
                      /\ UNCHANGED <<current_potion, last_measurement>>
                 ELSE IF last_measurement = None
                 THEN \* line 148: float - None raises TypeError
                      /\ mixer_raised' = TRUE
                      /\ mixer_ret' = None
                      /\ UNCHANGED <<current_potion, last_measurement>>
                 ELSE LET volume_added == answer.value[1] - last_measurement[1]
                          ingredient == [type |-> ingredient_name,
                                         volume |-> volume_added]
                          potion == current_potion[1]
                      IN  /\ current_potion' =
                                Some([potion EXCEPT
                                   !.ingredients = Append(@, ingredient),
                                   !.total_volume = @ + volume_added])
                          /\ last_measurement' = answer.value
                          /\ mixer_ret' = Some(TRUE)
                          /\ mixer_raised' = FALSE

\* lines 162-174
CompletePotion ==
    /\ MixerCall("complete_potion")
    /\ mixer_sensor' = "not_called"
    /\ mixer_raised' = FALSE
    /\ IF current_potion = None
       THEN /\ mixer_ret' = Some(FALSE)
            /\ delivery' = None
            /\ UNCHANGED <<current_potion, last_measurement,
                           start_measurement>>
       ELSE \E result \in {Some(TRUE), Some(FALSE)} :
              /\ delivery' = result
              /\ IF Delivered(result)
                 THEN /\ current_potion' = None
                      /\ last_measurement' = None
                      /\ start_measurement' = None
                      /\ mixer_ret' = Some(TRUE)
                 ELSE /\ mixer_ret' = Some(FALSE)
                      /\ UNCHANGED <<current_potion, last_measurement,
                                     start_measurement>>

InitPotionMixer ==
    /\ InitSensor({MissingFile})
    /\ InitWriters({MissingFile})
    /\ InitSend
    /\ InitBatch
    /\ InitIntegrator({"absent"})
    /\ InitParse
    /\ InitManager
    /\ InitMixer(BOOLEAN)
    /\ InitStream

NextMixer ==
    \/ StartNewPotion
    \/ \E ingredient_name \in MixerIngredients : AddIngredient(ingredient_name)
    \/ CompletePotion

SpecMixer == InitPotionMixer /\ [][NextMixer]_vars

-----------------------------------------------------------------------------
(* RealTimeStream of websocket_stream.py.  Its operations are called one at *)
(* a time; whether websockets.connect succeeds, whether a send on an open   *)
(* connection completes and when a connection is lost are the              *)
(* environment's choice.                                                    *)

StreamExceptions == {"AttributeError", "TypeError", "ConnectionClosed"}

\* line 35: except Exception
SendExcept(e) == e \in StreamExceptions

\* lines 15-21: self.websocket and self.connected after connect(), whose
\* websockets.connect succeeded (a new open connection) or raised
WebsocketAfterConnect(succeeds) == IF succeeds THEN "open" ELSE websocket
ConnectedAfterConnect(succeeds) == succeeds

\* line 33: what "await self.websocket.send(json.dumps(message))" raises on
\* the object sock: the attribute lookup on None, then json.dumps of data
\* that cannot be serialised, then the send on a connection that is closed
\* or is lost during the send; "none" when the send completes
SendOutcome(sock, serialisable, delivered) ==
    IF sock = "none" THEN "AttributeError"
    ELSE IF ~serialisable THEN "TypeError"
    ELSE IF sock = "closed" \/ ~delivered THEN "ConnectionClosed"
    ELSE "none"

\* what every operation does first
StreamCall(op) ==
    /\ stream_calls < MaxStreamCalls
    /\ stream_calls' = stream_calls + 1
    /\ stream_op' = op
    /\ connected0' = connected
    /\ UNCHANGED nonStreamVars

\* lines 13-21
StreamConnect ==
    /\ StreamCall("connect")
    /\ \E succeeds \in BOOLEAN :
          /\ websocket' = WebsocketAfterConnect(succeeds)
          /\ connected' = ConnectedAfterConnect(succeeds)
          /\ connect_failed' = ~succeeds
    /\ connect_attempted' = TRUE
    /\ message_sent' = FALSE
    /\ stream_ret' = None
    /\ stream_raised' = FALSE

\* lines 23-38
StreamSendData(serialisable) ==
    /\ StreamCall("send_data")
    /\ \E succeeds, delivered \in BOOLEAN :
          LET connects == ~connected
              sock == IF connects THEN WebsocketAfterConnect(succeeds)
                      ELSE websocket
              conn == IF connects THEN ConnectedAfterConnect(succeeds)
                      ELSE connected
              e == SendOutcome(sock, serialisable, delivered)
          IN  /\ connect_attempted' = connects
              /\ connect_failed' = (connects /\ ~succeeds)
              /\ message_sent' = (e = "none")
              /\ websocket' = IF e = "ConnectionClosed" THEN "closed" ELSE sock
              /\ IF e = "none"
                 THEN /\ connected' = conn
                      /\ stream_ret' = Some(TRUE)
                      /\ stream_raised' = FALSE
                 ELSE IF SendExcept(e)
                 THEN /\ connected' = FALSE
                      /\ stream_ret' = Some(FALSE)
                      /\ stream_raised' = FALSE
                 ELSE /\ connected' = conn
                      /\ stream_ret' = None
                      /\ stream_raised' = TRUE

\* lines 40-44
StreamClose ==
    /\ StreamCall("close")
    /\ IF websocket # "none"
       THEN /\ websocket' = "closed"
            /\ connected' = FALSE
       ELSE UNCHANGED <<websocket, connected>>
    /\ connect_attempted' = FALSE
    /\ connect_failed' = FALSE
    /\ message_sent' = FALSE
    /\ stream_ret' = None
    /\ stream_raised' = FALSE

\* the peer or the network ends the connection between two calls
ConnectionLost ==
    /\ websocket = "open"
    /\ websocket' = "closed"
    /\ UNCHANGED <<connected, stream_calls, stream_op, stream_ret,
                   stream_raised, connected0, connect_attempted,
                   connect_failed, message_sent>>
    /\ UNCHANGED nonStreamVars

InitRealTimeStream ==
    /\ InitSensor({MissingFile})
    /\ InitWriters({MissingFile})
    /\ InitSend
    /\ InitBatch
    /\ InitIntegrator({"absent"})
    /\ InitParse
    /\ InitManager
    /\ InitMixer({TRUE})
    /\ InitStream

NextStream ==
    \/ StreamConnect
    \/ \E serialisable \in BOOLEAN : StreamSendData(serialisable)
    \/ StreamClose
    \/ ConnectionLost

SpecStream == InitRealTimeStream /\ [][NextStream]_vars

-----------------------------------------------------------------------------
(* Properties *)

\* the last call of get_filtered_reading has ended and no call is running
Done == pc = "idle" /\ cycles > 0

Abs(x) == IF x < 0 THEN -x ELSE x
Min(a, b) == IF a < b THEN a ELSE b

\* the last n entries of s (all of them when s is shorter)
LastN(s, n) == SubSeq(s, Len(s) - Min(Len(s), n) + 1, Len(s))

\* h is an integer nearest to num / den (den > 0)
IsNearest(h, num, den) == 2 * Abs(h * den - num) <= den

\* the entry a cycle that returned ret appends to the log
NewEntry == [timestamp |-> cycles, reading |-> ret[1]]

\* pulse_end - pulse_start, in ticks, of the measurement just converted
Duration == pulse_end - pulse_start

\* C1: every non-absent value returned is the mean, rounded to 2 decimals,
\* of the last min(k, 5) raw samples accepted so far (k of them in all).
C1_ReturnIsMeanOfLastSamples ==
    (Done /\ ret # None) =>
        LET last == LastN(accepted, sample_window)
        IN  /\ Len(last) = Min(Len(accepted), sample_window)
            /\ Len(last) >= 1
            /\ IsNearest(ret[1], Sum(last), Len(last))

\* C1 witness: a value returned after 7 accepted samples whose mean over
\* the last 5 differs from the mean over all 7.
C1_Witness ==
    /\ Done
    /\ ret # None
    /\ Len(accepted) = sample_window + 2
    /\ ~IsNearest(ret[1], Sum(accepted), Len(accepted))

\* C2: the window never holds more than 5 samples, and it always is the
\* last min(k, 5) accepted samples in insertion order (a push onto a full
\* window dropped exactly the oldest one).
C2_WindowIsBoundedFifo ==
    /\ Len(readings) <= sample_window
    /\ readings = LastN(accepted, sample_window)

\* C2 witness: two pushes onto a full window, the two dropped samples
\* differing from the ones that took their place.
C2_Witness ==
    /\ Len(accepted) = sample_window + 2
    /\ Len(readings) = sample_window
    /\ accepted[1] # accepted[sample_window + 1]
    /\ accepted[2] # accepted[sample_window + 2]
    /\ readings # SubSeq(accepted, 1, sample_window)

\* C3: a cycle one of whose wait loops was left by the 0.1 s deadline
\* returns absent and leaves the window and the log as they were.  Stated
\* with simulation disabled, where no default value can take the place of
\* the measurement.
C3_TimeoutYieldsAbsent ==
    (Done /\ timed_out /\ ~USING_MOCK) =>
        /\ ret = None
        /\ readings = readings0
        /\ log_file = log_file0

\* C4: a converted distance outside [2, 400] gives no raw sample with
\* simulation disabled, and the raw sample 25.0 with simulation enabled.
C4_OutOfRangeSample ==
    (pc = "filter" /\ (Duration < MinTicks \/ Duration > MaxTicks)) =>
        raw_distance = IF USING_MOCK THEN Some(MockDefaultCm * 100) ELSE None

\* C4 witness: a distance just above 400 cm with simulation enabled, the
\* default taking its place.
C4_Witness ==
    /\ pc = "filter"
    /\ Duration = MaxTicks + 1
    /\ USING_MOCK
    /\ raw_distance = Some(MockDefaultCm * 100)

\* C5: a duration whose distance d = duration * 17150 lies in [2, 400],
\* both ends included, gives the raw sample d rounded to 2 decimals, with
\* simulation enabled or disabled.
C5_InRangeSample ==
    (pc = "filter" /\ MinTicks <= Duration /\ Duration <= MaxTicks) =>
        /\ raw_distance # None
        /\ IsNearest(raw_distance[1], 100 * Duration, TicksPerCm)

\* C5 witness: the distance is exactly 2 cm, on real hardware.
C5_Witness ==
    /\ pc = "filter"
    /\ Duration = MinTicks
    /\ ~USING_MOCK
    /\ raw_distance = Some(MinValid * 100)

\* C6: appending to an existing, readable log of length L gives a log of
\* length L + 1: the L prior entries unchanged and in order, then the new
\* reading.
C6_AppendKeepsPriorEntries ==
    (Done /\ raw_distance # None /\ log_file0.state = "ok" /\ ~env_fault) =>
        /\ ret # None
        /\ log_file.state = "ok"
        /\ Len(log_file.entries) = Len(log_file0.entries) + 1
        /\ SubSeq(log_file.entries, 1, Len(log_file0.entries))
              = log_file0.entries
        /\ log_file.entries[Len(log_file.entries)] = NewEntry

\* C6 witness: an append to a log that held an entry.
C6_Witness ==
    /\ Done
    /\ raw_distance # None
    /\ ~env_fault
    /\ log_file0.state = "ok"
    /\ Len(log_file0.entries) >= 1
    /\ Len(log_file.entries) = Len(log_file0.entries) + 1

\* C7: when the log file does not exist, the append takes the log for
\* empty, raises no error, and creates a log holding the new reading only.
C7_MissingLogIsCreated ==
    (Done /\ raw_distance # None /\ log_file0.state = "missing") =>
        /\ fault # "load"
        /\ ~env_fault => (ret # None /\ log_file = LogFile(<<NewEntry>>))

\* C7 witness: a cycle that began without a log file and wrote one.
C7_Witness ==
    /\ Done
    /\ raw_distance # None
    /\ log_file0.state = "missing"
    /\ log_file.state = "ok"
    /\ Len(log_file.entries) = 1

C9_PersistenceIsBestEffort ==
    (Done /\ raw_distance # None /\ fault \in {"load", "write"}) =>
        /\ ~raised
        /\ ret = Some(filtered_reading)
        /\ Len(readings) >= 1
        /\ readings[Len(readings)] = raw_distance[1]
        /\ IsNearest(ret[1], Sum(readings), Len(readings))

\* C9 witness: a failed write that left the file unreadable, the reading
\* returned all the same.
C9_Witness ==
    /\ Done
    /\ raw_distance # None
    /\ fault = "write"
    /\ log_file.state = "corrupt"
    /\ log_file0.state = "ok"
    /\ ret # None

\* C10 as claimed: no error reaches the caller, and a failure at any step,
\* persistence included, makes the cycle return absent.
C10_AnyFailureYieldsAbsent ==
    (Done /\ fault # "none") => (~raised /\ ret = None)

\* C10 amended: no error reaches the caller; a failure while triggering or
\* timing makes the cycle return absent, and a failure of the load or the
\* write of the log is caught inside the store, the cycle returning its
\* reading.
C10_NoErrorReachesCaller ==
    /\ ~raised
    /\ (Done /\ fault = "gpio") => ret = None
    /\ (Done /\ fault \in {"load", "write"}) => ret = Some(filtered_reading)

\* C10 witness: GPIO.input raised in a wait loop and the cycle returned
\* absent.
C10_Witness ==
    /\ Done
    /\ fault = "gpio"
    /\ ret = None
    /\ ~raised

\* the entries of the log a cycle began with (none when it could not be read)
Entries0 == IF log_file0.state = "ok" THEN log_file0.entries ELSE <<>>

\* C11: a cycle whose raw sample is invalid, simulation disabled, returns
\* absent and leaves the window and the log exactly as they were.
C11_InvalidSampleChangesNothing ==
    (Done /\ fault # "gpio" /\ ~in_range /\ ~USING_MOCK) =>
        /\ ret = None
        /\ ~raised
        /\ readings = readings0
        /\ log_file = log_file0

\* C11 witness: a second cycle with an invalid sample, after a first one
\* that filled the window and wrote the log.
C11_Witness ==
    /\ Done
    /\ fault = "none"
    /\ ~in_range
    /\ ~USING_MOCK
    /\ ret = None
    /\ readings # <<>>
    /\ log_file.state = "ok"
    /\ Len(log_file.entries) >= 1

C14_LogOnlyGrows ==
    (log_file0.state = "ok" /\ ~timed_out) =>
        \A i \in 1..Len(log_file0.entries) :
            /\ log_file.state = "ok"
            /\ i <= Len(log_file.entries)
            /\ log_file.entries[i] = log_file0.entries[i]

\* C16: with simulation disabled, a cycle whose pulse timed out or whose
\* distance is out of range returns absent, and no error reaches the
\* caller.
C16_FaultyPulseYieldsAbsent ==
    (Done /\ ~USING_MOCK /\ ~env_fault /\ (timed_out \/ ~in_range)) =>
        (ret = None /\ ~raised)

\* C15: each pulse measurement terminates: a wait loop that is still
\* running has read no clock value past the deadline (it is left at the
\* first such reading), and with a clock that advances every cycle that
\* entered a wait loop completes.
C15_WaitLoopsEndAtDeadline ==
    /\ [](pc = "wait_rise" => clock <= timeout)
    /\ [](pc = "wait_fall" => pulse_end <= timeout)
    /\ (pc \in {"wait_rise", "wait_fall"}) ~> (pc = "idle")

\* C15 witness: a cycle completed whose echo never rose, the first loop
\* left by its deadline.
C15_Witness ==
    /\ Done
    /\ timed_out
    /\ ~in_range
    /\ ret = (IF USING_MOCK THEN Some(MockDefaultCm * 100) ELSE None)

\* no call of _store_reading is running on the shared file
WritersIdle == \A w \in Writers : w_pc[w] = "idle"

SharedEntries0 ==
    IF shared_log0.state = "ok" THEN shared_log0.entries ELSE <<>>

\* C17: when the calls of _store_reading on one file are serialized (no call
\* begins while another is between its load and the end of its rewrite), the
\* file holds, after the calls, what it held before followed by the data of
\* every call in the order of the calls. When two calls interleave, one of
\* the new readings can be missing from the final file (C17_Witness).
C17_SerializedAppendsAreKept ==
    (WritersIdle /\ ~overlapped) =>
        /\ shared_log0.state = "missing" /\ begun = <<>> => shared_log = MissingFile
        /\ begun # <<>> =>
              /\ shared_log.state = "ok"
              /\ shared_log.entries = SharedEntries0 \o begun

\* two calls, one by each of two writers, have interleaved and ended; the
\* file is readable and holds one of the two new readings, not the other
C17_Witness ==
    /\ WritersIdle
    /\ overlapped
    /\ Len(begun) = 2
    /\ w_done[1] = 1 /\ w_done[2] = 1
    /\ shared_log.state = "ok"
    /\ shared_log.entries = Append(SharedEntries0, begun[1])
    /\ \A i \in 1..Len(shared_log.entries) : shared_log.entries[i] # begun[2]

\* the last call of send_reading has returned
SendDone == send_pc = "idle" /\ send_calls > 0

\* attempt i of this call got status 202
Succeeded(i) ==
    attempts[i].kind = "response" /\ attempts[i].status = AcceptedStatus

\* the calls of requests.post made by this call
Posts == {i \in 1..Len(attempts) : attempts[i].kind # "dumps_error"}

HasAllFields ==
    /\ "timestamp" \in reading_data.fields
    /\ "reading" \in reading_data.fields
    /\ "status" \in reading_data.fields

\* C18: with valid data, send_reading is in its loop only while every
\* attempt so far has failed (a non-202 response or an exception) and fewer
\* than max_retries were made; it returns True exactly when an attempt got
\* 202, that attempt is the last one, every earlier one failed, and the
\* number of POSTs is the index of that attempt.
C18_TrueAtFirstAccepted ==
    /\ send_pc = "posting" =>
          /\ validated
          /\ retry_count = Len(attempts)
          /\ retry_count < max_retries
          /\ \A i \in 1..Len(attempts) : ~Succeeded(i)
    /\ SendDone =>
          /\ send_ret = Some(TRUE) <=> \E i \in 1..Len(attempts) : Succeeded(i)
          /\ \A i \in 1..Len(attempts) :
                Succeeded(i) =>
                    /\ i = Len(attempts)
                    /\ Cardinality(Posts) = i

\* a 500 response, then 202 on the second of two allowed attempts
C18_Witness ==
    /\ SendDone
    /\ max_retries = 2
    /\ attempts = <<Response(500), Response(AcceptedStatus)>>
    /\ send_ret = Some(TRUE)

\* the attempts of this call all failed and there are max_retries of them
AllAttemptsFailed ==
    /\ Len(attempts) = max_retries
    /\ \A i \in 1..Len(attempts) : ~Succeeded(i)

C20_InvalidReadingIsNotSent ==
    /\ send_calls > 0 => (validated <=> HasAllFields)
    /\ (send_calls > 0 /\ ~HasAllFields) =>
          /\ send_pc = "idle"
          /\ send_ret = Some(FALSE)
          /\ attempts = <<>>

\* a reading with two of the three keys was refused with attempts allowed
C20_Witness ==
    /\ SendDone
    /\ reading_data.fields = {"timestamp", "reading"}
    /\ max_retries > 0
    /\ ~validated
    /\ send_ret = Some(FALSE)
    /\ attempts = <<>>

\* the call of process_batch_readings has returned
BatchDone == batch_pc = "idle" /\ batch_ret # None

\* the k-th call of send_reading made by the batch got status 202
CallAccepted(k) ==
    \E j \in 1..Len(batch_log[k].attempts) :
        /\ batch_log[k].attempts[j].kind = "response"
        /\ batch_log[k].attempts[j].status = AcceptedStatus

\* C21: process_batch_readings calls send_reading once on every reading, in
\* the order of the list, whatever the earlier calls returned; the list it
\* returns has one result per reading, and result i is True exactly when the
\* call on reading i got a 202 (never for a reading that lacks a key).
C21_OneResultPerReadingInOrder ==
    BatchDone =>
        /\ Len(batch_ret[1]) = Len(batch)
        /\ Len(batch_log) = Len(batch)
        /\ \A i \in 1..Len(batch) :
              /\ batch_log[i].reading = batch[i]
              /\ batch_ret[1][i] = CallAccepted(i)
              /\ "status" \notin batch[i].fields => batch_ret[1][i] = FALSE

\* a refused reading first, then a reading that was accepted
C21_Witness ==
    /\ BatchDone
    /\ batch = <<PartialReading, CompleteReading>>
    /\ batch_ret = Some(<<FALSE, TRUE>>)

\* the positions in calls of the calls of op
CallsOf(op) == {i \in 1..Len(calls) : calls[i].op = op}

ForwardingCalls == CallsOf("send_sensor_data") \cup CallsOf("broadcast")

MixerCalls ==
    CallsOf("start_new_potion") \cup CallsOf("add_ingredient")
        \cup CallsOf("complete_potion")

\* the last call of run_monitoring_cycle has ended
CycleEnded == int_pc = "idle" /\ monitor_cycles > 0

\* C22: when the sensor returned None or raised, process_sensor_reading
\* returns False and has called neither send_sensor_data nor broadcast; no
\* such call is ever made in a cycle whose sensor gave no reading.
C22_NoReadingNothingForwarded ==
    /\ (sensor_ret # None /\ (sensor_raised \/ sensor_reading = None)) =>
          /\ sensor_ret = Some(FALSE)
          /\ ForwardingCalls = {}
    /\ ForwardingCalls # {} => (sensor_reading # None /\ ~sensor_raised)

\* the sensor raised; process_sensor_reading returned False after the one
\* call of get_filtered_reading
C22_Witness ==
    /\ int_pc = "sleep"
    /\ sensor_raised
    /\ sensor_ret = Some(FALSE)
    /\ calls = <<Call("get_filtered_reading", None)>>

\* C23: when the sensor returned a reading, process_sensor_reading has
\* called send_sensor_data once with that value, then broadcast once with a
\* sensor_reading message carrying that value, and returns True.
C23_ReadingIsSentThenBroadcast ==
    (sensor_ret # None /\ sensor_reading # None /\ ~sensor_raised) =>
        /\ sensor_ret = Some(TRUE)
        /\ Len(calls) >= 3
        /\ calls[2] = [op |-> "send_sensor_data", arg |-> sensor_reading]
        /\ calls[3].op = "broadcast"
        /\ calls[3].arg = [type |-> "sensor_reading", value |-> sensor_reading]
        /\ Cardinality(CallsOf("send_sensor_data")) = 1
        /\ Cardinality(CallsOf("broadcast")) = 1

\* the reading 25.5 was sent and broadcast
C23_Witness ==
    /\ int_pc = "sleep"
    /\ sensor_reading = Some(MockDefaultCm * 100 + 50)
    /\ sensor_ret = Some(TRUE)
    /\ Len(calls) = 3

\* C24: run_monitoring_cycle lets no exception reach its caller; it reads the
\* sensor first and asks for a voice command once, after the sensor step,
\* whether that step succeeded or not; sensor_success is True exactly when
\* the sensor gave a reading, voice_success exactly when a potion mixer
\* operation was invoked and returned True, and voice_success is False
\* when listen_for_command raised or gave no command.
C24_CycleNeverRaises ==
    /\ ~cycle_raised
    /\ CycleEnded =>
          /\ cycle_ret # None
          /\ Cardinality(CallsOf("get_filtered_reading")) = 1
          /\ Cardinality(CallsOf("listen_for_command")) = 1
          /\ calls[1].op = "get_filtered_reading"
          /\ \A i \in ForwardingCalls :
                \A j \in CallsOf("listen_for_command") : i < j
          /\ cycle_ret[1].sensor_success =
                (sensor_reading # None /\ ~sensor_raised)
          /\ cycle_ret[1].voice_success = (mixer_result = Some(TRUE))
          /\ (voice_raised \/ command = None \/ command = Some({})) =>
                ~cycle_ret[1].voice_success

\* both steps raised and the cycle returned False for both
C24_Witness ==
    /\ CycleEnded
    /\ sensor_raised
    /\ voice_raised
    /\ Len(calls) = 2
    /\ cycle_ret =
          Some([sensor_success |-> FALSE, voice_success |-> FALSE])

\* C25: process_voice_command returns False and invokes no potion mixer
\* operation when the command is None or empty; when the command contains
\* start_potion, start_new_potion is invoked exactly once and what it
\* returns is returned.
C25_StartPotionIsInvoked ==
    voice_ret # None =>
        /\ (~voice_raised /\ (command = None \/ command = Some({}))) =>
              /\ voice_ret = Some(FALSE)
              /\ MixerCalls = {}
        /\ (command # None /\ "start_potion" \in command[1]) =>
              /\ Cardinality(CallsOf("start_new_potion")) = 1
              /\ mixer_result # None => voice_ret = mixer_result

\* the keywords of a category: the phrases of its list, and for
\* ingredient_type the phrases of all its ingredients
KeywordsOf(category) ==
    IF category = "ingredient_type"
    THEN UNION {ingredient_type[k] : k \in DOMAIN ingredient_type}
    ELSE command_keywords[category]

\* the categories with a keyword that occurs in the lower-cased text
CategoriesIn(text) ==
    {Categories[i] : i \in
        {j \in 1..Len(Categories) :
            \E k \in KeywordsOf(Categories[j]) : Occurs(k, Lower(text))}}

\* C26: _parse_command returns None for an empty text and for a text in
\* which no keyword occurs; otherwise it returns, without repetition, exactly
\* the categories that have a keyword occurring in the lower-cased text.
C26_CategoriesWithAKeyword ==
    parse_calls > 0 =>
        IF CategoriesIn(parse_text) = {}
        THEN parse_ret = None
        ELSE /\ parse_ret # None
             /\ {parse_ret[1][i] : i \in 1..Len(parse_ret[1])}
                    = CategoriesIn(parse_text)
             /\ Len(parse_ret[1]) = Cardinality(CategoriesIn(parse_text))

\* C27: the mean is never computed over an empty window: the division of
\* line 74 never raises, the window holds at least the sample of this cycle
\* while the reading is stored, and it holds at least one sample whenever a
\* reading is returned.
C27_MeanNeverOverEmptyWindow ==
    /\ fault # "mean"
    /\ pc \in {"store_load", "store_write"} =>
          /\ Len(readings) >= 1
          /\ readings[Len(readings)] = raw_distance[1]
    /\ (Done /\ ret # None) => Len(readings) >= 1

\* the first reading of an empty window was returned: the mean of one sample
C27_Witness ==
    /\ Done
    /\ readings0 = <<>>
    /\ ret # None
    /\ Len(readings) = 1
    /\ ret = Some(readings[1])

\* the last call of broadcast has returned
BroadcastDone == bc_pc = "idle" /\ bc_runs > 0

\* C28: when broadcast returns, send_json was called on every connection
\* that was in active_connections from the call to the return, whatever
\* sends failed and whatever other connections were removed meanwhile.
C28_NoConnectionIsSkipped ==
    BroadcastDone => throughout \subseteq attempted

-----------------------------------------------------------------------------
(* PotionMixer: the session protocol and the volume bookkeeping             *)

RECURSIVE SumVolumes(_)
SumVolumes(ingredients) ==
    IF ingredients = <<>> THEN 0
    ELSE ingredients[1].volume + SumVolumes(Tail(ingredients))

MixerUnchanged ==
    /\ current_potion = current_potion0
    /\ last_measurement = last_measurement0

\* C29: add_ingredient and complete_potion return False and change nothing
\* when no potion is in progress; start_new_potion always leaves a session
\* with no ingredients and total volume 0; complete_potion of a potion in
\* progress empties current_potion and last_measurement and returns True
\* when send_potion_data returned True, and otherwise returns False and
\* leaves both as they were.
C29_SessionProtocol ==
    /\ (mixer_op \in {"add_ingredient", "complete_potion"}
            /\ current_potion0 = None)
          => /\ mixer_ret = Some(FALSE)
             /\ ~mixer_raised
             /\ mixer_sensor = "not_called"
             /\ delivery = None
             /\ MixerUnchanged
    /\ mixer_op = "start_new_potion"
          => /\ current_potion # None
             /\ current_potion[1].ingredients = <<>>
             /\ current_potion[1].total_volume = 0
             /\ current_potion # current_potion0
    /\ (mixer_op = "complete_potion" /\ current_potion0 # None)
          => /\ delivery # None
             /\ IF delivery = Some(TRUE)
                THEN /\ current_potion = None
                     /\ last_measurement = None
                     /\ mixer_ret = Some(TRUE)
                ELSE /\ MixerUnchanged
                     /\ mixer_ret = Some(FALSE)

\* a potion with an ingredient was completed with delivery, which cleared
\* the session
C29_Witness ==
    /\ mixer_op = "complete_potion"
    /\ current_potion0 # None
    /\ Len(current_potion0[1].ingredients) > 0
    /\ delivery = Some(TRUE)
    /\ current_potion = None
    /\ last_measurement = None

\* C30: while a potion is in progress, total_volume is the sum of the
\* volumes of the recorded ingredients and is last_measurement minus the
\* measurement taken at start_new_potion; an add_ingredient whose sensor
\* reading is absent returns False and changes nothing.
C30_TotalVolumeIsLevelChange ==
    /\ current_potion # None
          => /\ current_potion[1].total_volume
                   = SumVolumes(current_potion[1].ingredients)
             /\ last_measurement # None
             /\ start_measurement # None
             /\ current_potion[1].total_volume
                   = last_measurement[1] - start_measurement[1]
    /\ (mixer_op = "add_ingredient" /\ mixer_sensor = "absent")
          => /\ mixer_ret = Some(FALSE)
             /\ MixerUnchanged

-----------------------------------------------------------------------------
(* RealTimeStream: what send_data returns and leaves behind                 *)

\* C31: send_data returns True only if the message was sent and the stream
\* is connected; when not connected it first attempts to connect; a failed
\* connect or a failed send yields False with connected = False, never an
\* exception; after close, connected is False.
C31_SendDataReportsTheSend ==
    /\ stream_op = "send_data"
          => /\ ~stream_raised
             /\ stream_ret # None
             /\ stream_ret = Some(TRUE) => (message_sent /\ connected)
             /\ ~connected0 => connect_attempted
             /\ (connect_failed \/ ~message_sent)
                    => (stream_ret = Some(FALSE) /\ ~connected)
    /\ stream_op = "close" => ~connected

====
